---- MODULE Spec2Model ----
(***************************************************************************)
(* BPTriggerBox (src/TriggerBox/TriggerBox.py): a thin wrapper around a    *)
(* serial port that sends one-byte trigger pulses.                         *)
(*                                                                         *)
(* The program is single-threaded and every method is a blocking call, so  *)
(* each method call is one atomic action.  The state is the class-level    *)
(* registry BPTriggerBox.instances, the serial handle and pulse width of   *)
(* every instance, and the bytes that have been written to each port.      *)
(*                                                                         *)
(* The serial library is the environment.  Its behaviour is modelled as    *)
(* far as the calls of the source depend on it:                            *)
(*   - Serial(port=..., exclusive=...) opens the port or raises            *)
(*     SerialException; an exclusive open takes a non-blocking exclusive   *)
(*     lock and fails when another handle holds that lock; a non-exclusive *)
(*     open takes no lock;                                                 *)
(*   - write() on a closed handle raises (PortNotOpenError, a              *)
(*     SerialException) and writes nothing;                                *)
(*   - close() on a closed handle does nothing;                            *)
(*   - time.sleep(x) raises ValueError for x < 0.                          *)
(***************************************************************************)
EXTENDS Integers, Sequences, FiniteSets, TLC

VARIABLES
    instances,  \* BPTriggerBox.instances: the registry, in order of append
    wire,       \* per port: every byte written to it, oldest first
    sent,       \* per registry entry: the bytes written through its handle
    last        \* the call that was made last, and how it returned

vars == <<instances, wire, sent, last>>

----------------------------------------------------------------------------
(* Bounds of the model *)

MaxInstances == 2   \* constructor calls that may succeed
MaxBytes == 4       \* bytes written in a run, over all ports

----------------------------------------------------------------------------
(* Inputs *)

\* Ports that exist on the machine, and one name that does not.
Ports == {"COM8", "COM9"}
MissingPort == "COM0"
PortNames == Ports \cup {MissingPort}

\* Pulse widths a caller may pass to the constructor, in milliseconds
\* (the default 0.005 s is 5).  The constructor does not validate the value.
PulseWidths == {-1, 5}

\* "0 < trigger_value < 255"
MaxTrigger == 255

\* A trigger value as send receives it: its Python type and its number
\* (for a float, the integer part).
PyInt(n) == [type |-> "int", val |-> n]
PyFloat(n) == [type |-> "float", val |-> n]
TriggerValues ==
    {PyInt(n) : n \in {0, 1, 254, 255}} \cup {PyFloat(1)}

NoTrigger == PyInt(0)

----------------------------------------------------------------------------
(* Helpers *)

Last(s) == s[Len(s)]

Indices == 1..Len(instances)

\* The number of bytes in a sequence of byte sequences.
RECURSIVE SumLen(_)
SumLen(logs) ==
    IF logs = <<>> THEN 0 ELSE Len(logs[1]) + SumLen(Tail(logs))

\* The number of bytes written so far.
BytesWritten == SumLen(sent)

\* The record of a call.
Call(op, self, port, trigger, close_only, was_open, result) ==
    [op |-> op, self |-> self, port |-> port, trigger |-> trigger,
     close_only |-> close_only, was_open |-> was_open, result |-> result]

\* serial.Serial.open as the source relies on it: the port must exist, and an
\* exclusive open fails while another handle holds the exclusive lock on it.
Serial_can_open(insts, self, port, exclusive) ==
    /\ port \in Ports
    /\ exclusive =>
         \A j \in 1..Len(insts) :
             j # self =>
                ~(insts[j].is_open /\ insts[j].port = port /\ insts[j].exclusive)

\* A range check that lets 255 through.
ValidTrigger_accepts_255(v) ==
    /\ v.type = "int"
    /\ 0 < v.val
    /\ v.val <= MaxTrigger

\* The two assertions of send: isinstance(trigger_value, int) and
\* 0 < trigger_value < 255.
ValidTrigger(v) ==
    /\ v.type = "int"
    /\ 0 < v.val
    /\ v.val < MaxTrigger

\* time.sleep(self.pw)
SleepOk(pw) == pw >= 0

\* The bytes send writes through an open handle: the trigger value, and the
\* resetting zero once the sleep has returned.
SendBytes(v, pw) ==
    IF SleepOk(pw) THEN <<v.val, 0>> ELSE <<v.val>>

----------------------------------------------------------------------------
Init ==
    /\ instances = <<>>
    /\ wire = [p \in Ports |-> <<>>]
    /\ sent = <<>>
    /\ last = Call("none", 0, MissingPort, NoTrigger, FALSE, FALSE, "ok")

\* A constructor that opens the port without the configured exclusive flag.
Construct_not_exclusive(port, exclusive, pw) ==
    IF Serial_can_open(instances, 0, port, FALSE)
    THEN /\ Len(instances) < MaxInstances
         /\ BytesWritten < MaxBytes
         /\ instances' = Append(instances,
                [port |-> port, exclusive |-> exclusive,
                 is_open |-> TRUE, pw |-> pw])
         /\ wire' = [wire EXCEPT ![port] = Append(@, 0)]
         /\ sent' = Append(sent, <<0>>)
         /\ last' = Call("init", Len(instances) + 1, port, NoTrigger,
                         FALSE, FALSE, "ok")
    ELSE /\ last' = Call("init", 0, port, NoTrigger, FALSE, FALSE,
                         "SerialException")
         /\ UNCHANGED <<instances, wire, sent>>

\* A constructor without the initial zero write.
Construct_no_zero(port, exclusive, pw) ==
    IF Serial_can_open(instances, 0, port, exclusive)
    THEN /\ Len(instances) < MaxInstances
         /\ BytesWritten < MaxBytes
         /\ instances' = Append(instances,
                [port |-> port, exclusive |-> exclusive,
                 is_open |-> TRUE, pw |-> pw])
         /\ sent' = Append(sent, <<>>)
         /\ last' = Call("init", Len(instances) + 1, port, NoTrigger,
                         FALSE, FALSE, "ok")
         /\ UNCHANGED wire
    ELSE /\ last' = Call("init", 0, port, NoTrigger, FALSE, FALSE,
                         "SerialException")
         /\ UNCHANGED <<instances, wire, sent>>

\* BPTriggerBox(port_config, pulsewidth): serial.Serial(...) opens the port or
\* raises before anything else happens; then self.pw is set, the instance is
\* appended to the registry and the zero byte is written.
Construct(port, exclusive, pw) ==
    IF Serial_can_open(instances, 0, port, exclusive)
    THEN /\ Len(instances) < MaxInstances
         /\ BytesWritten < MaxBytes
         /\ instances' = Append(instances,
                [port |-> port, exclusive |-> exclusive,
                 is_open |-> TRUE, pw |-> pw])
         /\ wire' = [wire EXCEPT ![port] = Append(@, 0)]
         /\ sent' = Append(sent, <<0>>)
         /\ last' = Call("init", Len(instances) + 1, port, NoTrigger,
                         FALSE, FALSE, "ok")
    ELSE /\ last' = Call("init", 0, port, NoTrigger, FALSE, FALSE,
                         "SerialException")
         /\ UNCHANGED <<instances, wire, sent>>

\* self.send(trigger_value): the assertions come first, then the first write
\* (which raises on a closed handle), the sleep and the second write.
send(self, v) ==
    LET me == instances[self] IN
    /\ BytesWritten + 2 <= MaxBytes
    /\ IF ~ValidTrigger(v)
       THEN /\ last' = Call("send", self, me.port, v, FALSE, me.is_open,
                            "AssertionError")
            /\ UNCHANGED <<instances, wire, sent>>
       ELSE IF ~me.is_open
       THEN /\ last' = Call("send", self, me.port, v, FALSE, me.is_open,
                            "SerialException")
            /\ UNCHANGED <<instances, wire, sent>>
       ELSE /\ wire' = [wire EXCEPT ![me.port] = @ \o SendBytes(v, me.pw)]
            /\ sent' = [sent EXCEPT ![self] = @ \o SendBytes(v, me.pw)]
            /\ last' = Call("send", self, me.port, v, FALSE, me.is_open,
                            IF SleepOk(me.pw) THEN "ok" ELSE "ValueError")
            /\ UNCHANGED instances

\* The handle of instance self after reset_port(close_only), and how the call
\* returns.
ResetOutcome(self, close_only) ==
    LET me == instances[self]
        \* "if not self._interface.is_open: self._interface.open()"
        first_open_ok ==
            me.is_open
              \/ Serial_can_open(instances, self, me.port, me.exclusive)
        \* after flushInput, flushOutput and close
        closed == [instances EXCEPT ![self].is_open = FALSE]
        \* "if not close_only: self._interface.open()"
        reopen_ok == Serial_can_open(closed, self, me.port, me.exclusive)
    IN
    IF ~first_open_ok
    THEN [insts |-> instances, result |-> "SerialException"]
    ELSE IF close_only
    THEN [insts |-> closed, result |-> "ok"]
    ELSE IF reopen_ok
    THEN [insts |-> [instances EXCEPT ![self].is_open = TRUE], result |-> "ok"]
    ELSE [insts |-> closed, result |-> "SerialException"]

\* A reset_port that reopens the handle whatever close_only says.
reset_port_always_reopens(self, close_only) ==
    LET me == instances[self]
        out == ResetOutcome(self, FALSE)
    IN
    /\ instances' = out.insts
    /\ last' = Call("reset_port", self, me.port, NoTrigger, close_only,
                    me.is_open, out.result)
    /\ UNCHANGED <<wire, sent>>

\* A reset_port that repeats the constructor's zero write when it reopens.
reset_port_rewrites_zero(self, close_only) ==
    LET me == instances[self]
        out == ResetOutcome(self, close_only)
        reopened == out.result = "ok" /\ ~close_only
    IN
    /\ reopened => BytesWritten < MaxBytes
    /\ instances' = out.insts
    /\ last' = Call("reset_port", self, me.port, NoTrigger, close_only,
                    me.is_open, out.result)
    /\ wire' = IF reopened THEN [wire EXCEPT ![me.port] = Append(@, 0)]
                           ELSE wire
    /\ sent' = IF reopened THEN [sent EXCEPT ![self] = Append(@, 0)] ELSE sent

\* self.reset_port(close_only)
reset_port(self, close_only) ==
    LET me == instances[self]
        out == ResetOutcome(self, close_only)
    IN
    /\ instances' = out.insts
    /\ last' = Call("reset_port", self, me.port, NoTrigger, close_only,
                    me.is_open, out.result)
    /\ UNCHANGED <<wire, sent>>

\* Whether some registered handle is open.
AnyOpen == \E i \in Indices : instances[i].is_open

\* A close_all_ports that stops after the first instance.
close_all_ports_first_only ==
    /\ instances' = IF instances # <<>>
                     THEN [instances EXCEPT ![1].is_open = FALSE]
                     ELSE instances
    /\ last' = Call("close_all_ports", 0, MissingPort, NoTrigger, FALSE,
                    AnyOpen, "ok")
    /\ UNCHANGED <<wire, sent>>

\* A close_all_ports that also empties the registry.
close_all_ports_clears ==
    /\ instances' = <<>>
    /\ sent' = <<>>
    /\ last' = Call("close_all_ports", 0, MissingPort, NoTrigger, FALSE,
                    AnyOpen, "ok")
    /\ UNCHANGED wire

\* BPTriggerBox.close_all_ports(): closes the handle of every registry entry;
\* closing a closed handle does nothing.
close_all_ports ==
    /\ instances' = IF instances # <<>>
                     THEN [i \in Indices |->
                              [instances[i] EXCEPT !.is_open = FALSE]]
                     ELSE instances
    /\ last' = Call("close_all_ports", 0, MissingPort, NoTrigger, FALSE,
                    AnyOpen, "ok")
    /\ UNCHANGED <<wire, sent>>

Next ==
    \/ \E port \in PortNames, exclusive \in BOOLEAN, pw \in PulseWidths :
          Construct(port, exclusive, pw)
    \/ \E self \in Indices, v \in TriggerValues : send(self, v)
    \/ \E self \in Indices, close_only \in BOOLEAN : reset_port(self, close_only)
    \/ close_all_ports

Spec == Init /\ [][Next]_vars

----------------------------------------------------------------------------
(* Properties.  A step whose new call record names an operation is a call   *)
(* of that operation, since every action records its call in last.          *)

\* The handle of the instance the last call was made on.
LastHandle == instances[last.self]

\* A trigger value in [1,254], as the specification states the range.
InRange(v) == v.type = "int" /\ v.val \in 1..254

\* C1: for every integer v in [1,254], send(v) on an open instance appends
\* exactly the two bytes v, 0 to that port's wire and to no other wire.
C1_SendAppendsValueThenZero ==
    [][(/\ last'.op = "send"
        /\ InRange(last'.trigger)
        /\ last'.was_open)
       => /\ last'.result = "ok"
          /\ wire' = [wire EXCEPT ![last'.port] = @ \o <<last'.trigger.val, 0>>]
      ]_vars

\* C2: for v = 0, v >= 255 and non-integer v, send(v) fails with the
\* invalid-argument error (AssertionError) and writes nothing: wires and
\* handles are as before the call.
C2_InvalidTriggerRejected ==
    [][(/\ last'.op = "send"
        /\ \/ last'.trigger.type # "int"
           \/ last'.trigger.val = 0
           \/ last'.trigger.val >= 255)
       => /\ last'.result = "AssertionError"
          /\ wire' = wire
          /\ sent' = sent
          /\ instances' = instances
      ]_vars

\* C2 witness: send(255) on an open handle was rejected.
C2_Witness ==
    /\ last.op = "send"
    /\ last.trigger = PyInt(255)
    /\ last.was_open
    /\ last.result = "AssertionError"

\* C3: the line is zero at rest: between calls, the last byte written to every
\* port that has been written to is 0.
C3_LineZeroAtRest ==
    \A p \in Ports : wire[p] # <<>> => Last(wire[p]) = 0

\* C4: a successful constructor call writes byte 0 exactly once (the new
\* instance has written <<0>>, appended to its port's wire), and only a send on
\* that instance adds a byte after it.
C4_ZeroOnceBeforeSend ==
    [][/\ (last'.op = "init" /\ last'.result = "ok")
            => /\ Len(instances') = Len(instances) + 1
               /\ last'.self = Len(instances')
               /\ sent'[last'.self] = <<0>>
               /\ wire' = [wire EXCEPT ![last'.port] = Append(@, 0)]
       /\ \A i \in Indices :
             (sent[i] = <<0>> /\ sent'[i] # <<0>>)
                => (last'.op = "send" /\ last'.self = i)
      ]_vars

\* C4 witness: a handle was closed and reopened before its first send, and the
\* instance has still written the single byte 0.
C4_Witness ==
    /\ last.op = "reset_port"
    /\ ~last.close_only
    /\ ~last.was_open
    /\ last.result = "ok"
    /\ sent[last.self] = <<0>>

C6_CloseAllClosesAll ==
    last.op = "close_all_ports" =>
        /\ last.result = "ok"
        /\ \A i \in Indices : ~instances[i].is_open

\* C6 witness: close_all_ports ran on two instances of which one was open.
C6_Witness ==
    /\ last.op = "close_all_ports"
    /\ last.was_open
    /\ Len(instances) >= 2

\* C7 as stated: no two instances hold an open handle on the same port.
C7_DistinctPorts ==
    \A i, j \in Indices :
        (i # j /\ instances[i].is_open /\ instances[j].is_open)
            => instances[i].port # instances[j].port

\* C7 amended: no two instances that were both configured exclusive hold an
\* open handle on the same port.
C7_DistinctExclusivePorts ==
    \A i, j \in Indices :
        (/\ i # j
         /\ instances[i].is_open /\ instances[j].is_open
         /\ instances[i].exclusive /\ instances[j].exclusive)
            => instances[i].port # instances[j].port

\* C7 witness: opening an existing port failed because an open exclusive
\* instance holds it.
C7_Witness ==
    /\ last.op = "init"
    /\ last.result = "SerialException"
    /\ last.port \in Ports
    /\ \E i \in Indices :
          instances[i].is_open /\ instances[i].exclusive
              /\ instances[i].port = last.port

\* C8: send performs both of its writes or none of them.
C8_SendAllOrNothing ==
    [][last'.op = "send"
       => \/ wire' = wire
          \/ wire' = [wire EXCEPT ![last'.port] = @ \o <<last'.trigger.val, 0>>]
      ]_vars

\* What identifies a registry entry.
Identity(inst) == <<inst.port, inst.exclusive, inst.pw>>

\* C9: a failing constructor call adds nothing to the registry and writes
\* nothing; a successful one appends exactly one entry; send, reset_port and
\* close_all_ports neither add nor remove an entry.
C9_RegistryOnlyGrowsByOpen ==
    [][/\ (last'.op = "init" /\ last'.result # "ok")
            => (instances' = instances /\ wire' = wire /\ sent' = sent)
       /\ (last'.op = "init" /\ last'.result = "ok")
            => /\ Len(instances') = Len(instances) + 1
               /\ \A i \in Indices : instances'[i] = instances[i]
               /\ instances'[Len(instances')].port = last'.port
               /\ instances'[Len(instances')].is_open
       /\ last'.op \in {"send", "reset_port", "close_all_ports"}
            => /\ Len(instances') = Len(instances)
               /\ \A i \in Indices :
                     Identity(instances'[i]) = Identity(instances[i])
      ]_vars

\* C9 witness: a constructor call on a port that does not exist failed while
\* the registry held one instance.
C9_Witness ==
    /\ last.op = "init"
    /\ last.result = "SerialException"
    /\ last.port = MissingPort
    /\ Len(instances) = 1

\* C10: reset_port and close_all_ports write no byte and leave every pulse
\* width as it is.
C10_ResetAndCloseWriteNothing ==
    [][last'.op \in {"reset_port", "close_all_ports"}
       => /\ wire' = wire
          /\ sent' = sent
          /\ Len(instances') = Len(instances)
          /\ \A i \in Indices : instances'[i].pw = instances[i].pw
      ]_vars

\* C10 witness: reset_port reopened a handle after sends, and the port's wire
\* still ends with the zero of the last send.
C10_Witness ==
    /\ last.op = "reset_port"
    /\ ~last.close_only
    /\ last.result = "ok"
    /\ LastHandle.is_open
    /\ sent[last.self] = <<0, 1, 0>>

====
